---- MODULE Spec2Model ----
(***************************************************************************)
(* A model of gpt_researcher/scraper/jina/jina.py: the JinaScraper object, *)
(* its construction from the process environment, and scrape() running     *)
(* under the tenacity retry decorator.  Several scrapers run their calls   *)
(* concurrently; every step of a call is one action.                       *)
(***************************************************************************)
EXTENDS Integers, Sequences, FiniteSets, TLC

VARIABLES
    env,             \* os.environ, read by get_api_key and get_server_url
    pool,            \* the session argument the pipeline passes to __init__
    scraper,         \* per scraper: the object's fields (or that __init__ raised)
    pc,              \* per call: idle, inflight, sleeping, returned, raised
    attempt_number,  \* per call: the retry state's attempt number (the number
                     \* of the next attempt while the call sleeps)
    sent,            \* per call: the requests posted so far
    hist,            \* per call: what each request ended in
    slept,           \* per call: the backoff waits completed so far
    transformed,     \* per call: the pages passed to the transformation
    result,          \* per call: the value returned or the exception raised
    cancelled,       \* per call: the caller has cancelled it
    logged,          \* per call: the exceptions passed to logger.exception
    done             \* per scraper: its earlier, completed calls

vars == <<env, pool, scraper, pc, attempt_number, sent, hist, slept, transformed,
          result, cancelled, logged, done>>

\* ------------------------------------------------------------------ bounds
\* Number of scraper objects (one scrape target each) that run concurrently.
NumScrapers == 2
\* Number of scrape() calls made on one scraper, one after the other.
MaxCalls == 2

Scrapers == 1..NumScrapers

\* ------------------------------------------------------- program constants
\* stop_after_attempt(5)
MaxAttempts == 5
\* wait_exponential(multiplier=1, min=10, max=600)
WaitMultiplier == 1
WaitMin == 10
WaitMax == 600

\* ----------------------------------------------------------- Python values
\* A Python value that is either a str or None.
Str(s) == [t |-> "str", v |-> s]
PyNone == [t |-> "NoneType", v |-> ""]
IsStr(x) == x.t = "str"

Max2(a, b) == IF a >= b THEN a ELSE b
Min2(a, b) == IF a <= b THEN a ELSE b

\* ------------------------------------------------------------- environment
\* os.environ: a partial map from names to strings.
EnvEmpty == [n \in {} |-> ""]
EnvBlankKeyUrl == [n \in {"JINA_API_KEY", "JINA_SERVER_URL"} |->
                     IF n = "JINA_API_KEY" THEN "" ELSE "http://jina.local/"]
EnvKey == [n \in {"JINA_API_KEY"} |-> "k1"]

\* The session argument the pipeline passes to every constructor: None or
\* one shared connection pool.
NoSession == "None"
SharedSession == "pool"

\* The deployments: a process environment and the session the pipeline passes.
Deployments ==
    { [env |-> EnvEmpty, pool |-> SharedSession],
      [env |-> EnvBlankKeyUrl, pool |-> NoSession],
      [env |-> EnvKey, pool |-> SharedSession] }

\* The target of scraper s.
LinkOf(s) == "http://site" \o ToString(s) \o "/"

\* ---------------------------------------------------------- remote service
\* Pages the service can send as a response body.  A page is what the
\* readability extraction can find in it: a title ("" when there is none), the
\* article body's block elements (<<>> when extraction finds no content), and
\* whether the text can be parsed at all.  A block element is a <p> or an <h1>
\* holding text, then an optional <b> run (strong), then an optional
\* <img src class width height> (src "" when there is none, width and height 0
\* when the attribute is absent).
PageFull == [wellformed |-> TRUE, title |-> "T",
             body |-> << [tag |-> "p", text |-> "Hello ", strong |-> "world",
                          src |-> "", cls |-> "", width |-> 0, height |-> 0],
                         [tag |-> "p", text |-> "", strong |-> "",
                          src |-> "a.png", cls |-> "", width |-> 0, height |-> 0],
                         [tag |-> "p", text |-> "", strong |-> "",
                          src |-> "hero.png", cls |-> "hero", width |-> 0, height |-> 0],
                         [tag |-> "p", text |-> "", strong |-> "",
                          src |-> "dot.png", cls |-> "", width |-> 1, height |-> 1] >>]
PageNoTitle == [wellformed |-> TRUE, title |-> "",
                body |-> << [tag |-> "h1", text |-> "Hi", strong |-> "",
                             src |-> "", cls |-> "", width |-> 0, height |-> 0] >>]
PageNoContent == [wellformed |-> TRUE, title |-> "", body |-> << >>]
PageBroken == [wellformed |-> FALSE, title |-> "", body |-> << >>]
Pages == {PageFull, PageNoTitle, PageNoContent, PageBroken}

\* What requests.post can end in: a response (status, text), or a network
\* failure with no response at all.
HttpResponse(status, page) == [net_ok |-> TRUE, status_code |-> status, text |-> page]
NetworkFailure == [net_ok |-> FALSE, status_code |-> 0, text |-> PageNoContent]
Responses ==
    {HttpResponse(200, p) : p \in Pages}
    \cup {HttpResponse(101, PageFull), HttpResponse(300, PageFull),
          HttpResponse(404, PageNoContent), HttpResponse(429, PageNoContent),
          HttpResponse(500, PageNoContent), NetworkFailure}

\* -------------------------------------------------------------- exceptions
\* An exception object: its class, the response it carries (if any) and the
\* attempt of the call that created it (its identity).
HTTPError(status, n) ==
    [type |-> "HTTPError", has_response |-> TRUE, status_code |-> status, attempt |-> n]
OtherError(cls, n) ==
    [type |-> cls, has_response |-> FALSE, status_code |-> 0, attempt |-> n]
NoException == OtherError("", 0)

\* Variant: retry on any exception at all.
is_429_error_any_exception(exc) ==
    exc.type # ""

\* Variant: retry on any HTTP error, not only on 429.
is_429_error_any_http(exc) ==
    exc.type = "HTTPError" /\ exc.has_response

\* is_429_error(exc)
is_429_error(exc) ==
    /\ exc.type = "HTTPError"
    /\ exc.has_response
    /\ exc.status_code = 429

\* Variant: every status outside 2xx raises.
raise_for_status_non_2xx(status) ==
    ~(200 <= status /\ status < 300)

\* Response.raise_for_status(): raises HTTPError for 4xx and 5xx only.
raise_for_status(status) ==
    400 <= status /\ status < 600

\* ---------------------------------------------------------- construction
\* get_api_key(): KeyError is caught and logged, and the return statement then
\* reads a local that was never bound: UnboundLocalError.
get_api_key(e) ==
    IF "JINA_API_KEY" \in DOMAIN e
    THEN [raised |-> FALSE, value |-> e["JINA_API_KEY"]]
    ELSE [raised |-> TRUE, value |-> ""]

\* get_server_url()
get_server_url(e) ==
    IF "JINA_SERVER_URL" \in DOMAIN e THEN e["JINA_SERVER_URL"] ELSE "https://r.jina.ai/"

\* session or requests.Session()
SessionOrNew(arg, s) ==
    IF arg # NoSession THEN arg ELSE "session" \o ToString(s)

Unbuilt == [state |-> "unbuilt", link |-> "", session |-> NoSession,
            api_key |-> "", api_url |-> ""]

\* JinaScraper.__init__(link, session)
NewScraper(s, link, arg, e) ==
    IF get_api_key(e).raised
    THEN [Unbuilt EXCEPT !.state = "ctor_raised"]
    ELSE [state |-> "built", link |-> link, session |-> SessionOrNew(arg, s),
          api_key |-> get_api_key(e).value, api_url |-> get_server_url(e)]

\* ------------------------------------------------------------- the request
AuthHeaders(key) ==
    [h \in {"Authorization", "Content-Type", "X-Return-Format"} |->
        IF h = "Authorization" THEN "Bearer " \o key
        ELSE IF h = "Content-Type" THEN "application/json" ELSE "html"]
PlainHeaders ==
    [h \in {"Content-Type", "X-Return-Format"} |->
        IF h = "Content-Type" THEN "application/json" ELSE "html"]

\* Variant: the Authorization header is set whatever the key.
BuildHeaders_always_auth(key) == AuthHeaders(key)

\* if self.api_key: ... else: ...
BuildHeaders(key) == IF key # "" THEN AuthHeaders(key) ELSE PlainHeaders

\* requests.post(self.api_url, headers=headers_json, json={"url": self.link})
BuildRequest(sc) ==
    [method |-> "POST", url |-> sc.api_url, headers |-> BuildHeaders(sc.api_key),
     json |-> [url |-> sc.link]]

\* ---------------------------------------------------------- transformation
\* simple_json_from_html_string(raw_html, use_readability=True): a falsy title
\* or content is left None in the article.
simple_json_from_html_string(page) ==
    [title |-> IF page.title # "" THEN Str(page.title) ELSE PyNone,
     has_content |-> page.body # << >>,
     content |-> page.body]

\* The inline text of a block as markdownify renders it: <b> is wrapped in the
\* default strong mark, two asterisks.
InlineMd(el) ==
    el.text \o (IF el.strong # "" THEN "**" \o el.strong \o "**" ELSE "")

\* An <img> of a paragraph as markdownify renders it: ![alt](src), alt empty.
ImageMd(el) ==
    IF el.src # "" THEN "![](" \o el.src \o ")" ELSE ""

\* The underline of a heading: one pad character for each character of its text.
RECURSIVE Underline(_, _)
Underline(pad, n) ==
    IF n = 0 THEN "" ELSE pad \o Underline(pad, n - 1)

\* markdownify of one block, with the default options md() is called with:
\* heading_style is UNDERLINED, so an <h1> is its text over a line of "=", and
\* an image inside a heading is reduced to its (empty) alt text.  A block that
\* renders to nothing leaves nothing.
MdElement(el) ==
    IF el.tag = "h1"
    THEN (IF InlineMd(el) = "" THEN << >>
          ELSE << InlineMd(el) \o "\n" \o Underline("=", Len(InlineMd(el))) >>)
    ELSE (IF InlineMd(el) \o ImageMd(el) = "" THEN << >>
          ELSE << InlineMd(el) \o ImageMd(el) >>)

\* md(html): the markdown text as the sequence of its blocks, which the text
\* separates by blank lines, in document order.
RECURSIVE md(_)
md(content) ==
    IF content = << >> THEN << >>
    ELSE MdElement(Head(content)) \o md(Tail(content))

\* The image-relevance collaborator (gpt_researcher/scraper/utils.py), which the
\* scraper calls as a black box.  The classes that mark an image as relevant.
RelevantImageClasses == {"header", "featured", "hero", "thumbnail", "main", "content"}

\* The score of one image, -1 for an image that is skipped as too small: 4 for a
\* relevant class, otherwise by its width and height when both are given,
\* otherwise 0.
ImageScore(el) ==
    IF el.cls \in RelevantImageClasses THEN 4
    ELSE IF el.width > 0 /\ el.height > 0
    THEN (IF el.width >= 2000 /\ el.height >= 1000 THEN 3
          ELSE IF el.width >= 1600 \/ el.height >= 800 THEN 2
          ELSE IF el.width >= 800 \/ el.height >= 500 THEN 1
          ELSE IF el.width >= 500 \/ el.height >= 300 THEN 0
          ELSE -1)
    ELSE 0

\* The scored images in document order: {"url": urljoin(url, src), "score": n}
\* for every <img src> that is not skipped.
RECURSIVE ScoredImages(_, _)
ScoredImages(content, link) ==
    IF content = << >> THEN << >>
    ELSE (IF Head(content).src # "" /\ ImageScore(Head(content)) >= 0
          THEN << [url |-> link \o Head(content).src,
                   score |-> ImageScore(Head(content))] >>
          ELSE << >>)
         \o ScoredImages(Tail(content), link)

\* sorted(image_urls, key=score, reverse=True): a stable sort, highest first.
SortedByScore(images) ==
    LET WithScore(k) == SelectSeq(images, LAMBDA i : i.score = k)
    IN WithScore(4) \o WithScore(3) \o WithScore(2) \o WithScore(1) \o WithScore(0)

\* get_relevant_images(soup, url): the scored images, best first, ten at most.
get_relevant_images(content, link) ==
    LET image_urls == ScoredImages(content, link)
        sorted_images == SortedByScore(image_urls)
    IN SubSeq(sorted_images, 1, Min2(Len(sorted_images), 10))

\* Variant: the markdown of the article is lost.
MarkdownOf_nothing(article) == << >>

\* md(article["content"])
MarkdownOf(article) == md(article.content)

\* The empty outcome: "", [], ""
EmptyOutcome == << << >>, << >>, Str("") >>

\* Lines 95-106: the outcome of the transformation, or the exception it ends in.
Transform(page, link, n) ==
    IF ~page.wellformed
    THEN [raised |-> TRUE, exc |-> OtherError("ParseError", n), value |-> EmptyOutcome]
    ELSE LET article == simple_json_from_html_string(page) IN
         IF ~article.has_content
         THEN [raised |-> TRUE, exc |-> OtherError("TypeError", n), value |-> EmptyOutcome]
         ELSE [raised |-> FALSE, exc |-> NoException,
               value |-> << MarkdownOf(article),
                            get_relevant_images(article.content, link),
                            article.title >>]

\* Lines 91-106: what the try block ends in for one response.
TryBlock(sc, resp, n) ==
    IF ~resp.net_ok
    THEN [raised |-> TRUE, exc |-> OtherError("ConnectionError", n),
          value |-> EmptyOutcome, ran_transform |-> FALSE]
    ELSE IF raise_for_status(resp.status_code)
    THEN [raised |-> TRUE, exc |-> HTTPError(resp.status_code, n),
          value |-> EmptyOutcome, ran_transform |-> FALSE]
    ELSE LET t == Transform(resp.text, sc.link, n) IN
         [raised |-> t.raised, exc |-> t.exc, value |-> t.value, ran_transform |-> TRUE]

\* Variant: no except clause, every exception of the try block propagates.
ScrapeBody_no_except(sc, resp, n) ==
    LET t == TryBlock(sc, resp, n) IN
    [raised |-> t.raised, exc |-> t.exc, value |-> t.value,
     ran_transform |-> t.ran_transform, logged |-> << >>]

\* Lines 76-112: one run of the body of scrape(): the except clause re-raises a
\* 429 error and turns every other exception into the empty outcome.
ScrapeBody(sc, resp, n) ==
    LET t == TryBlock(sc, resp, n) IN
    IF t.raised /\ ~is_429_error(t.exc)
    THEN [raised |-> FALSE, exc |-> NoException, value |-> EmptyOutcome,
          ran_transform |-> t.ran_transform, logged |-> << t.exc >>]
    ELSE [raised |-> t.raised, exc |-> t.exc, value |-> t.value,
          ran_transform |-> t.ran_transform, logged |-> << >>]

\* ------------------------------------------------------------ retry policy
\* Variant: the exponential wait without its floor.
wait_exponential_no_floor(n) ==
    Min2(WaitMultiplier * 2^(n - 1), WaitMax)

\* wait_exponential(multiplier=1, min=10, max=600) after attempt n.
wait_exponential(n) ==
    Max2(Max2(0, WaitMin), Min2(WaitMultiplier * 2^(n - 1), WaitMax))

\* Variant: the policy never stops.
stop_after_attempt_never(n) == FALSE

\* Variant: the policy stops one attempt late.
stop_after_attempt_late(n) == n >= MaxAttempts + 1

\* stop_after_attempt(5)
stop_after_attempt(n) == n >= MaxAttempts

\* Variant: reraise=False, the exception is wrapped in a RetryError.
RaisedAtStop_wrapped(exc) == OtherError("RetryError", exc.attempt)

\* reraise=True: when the policy stops, the last attempt's exception is raised.
RaisedAtStop(exc) == exc

\* Variant: one attempt counter on the decorator, shared by all calls.
RetryAttempt_shared(s) ==
    LET RECURSIVE Sum(_)
        Sum(k) == IF k = 0 THEN 0 ELSE attempt_number[k] + Sum(k - 1)
    IN Sum(NumScrapers)

\* The attempt counter the policy reads for call s: the call's own retry state.
RetryAttempt(s) == attempt_number[s]

\* Variant: the attempt counter of the scraper's previous call is carried over.
FirstAttempt_carried(s) == attempt_number[s] + 1

\* A call starts with a retry state of its own, at attempt 1.
FirstAttempt(s) == 1

\* Variant: a run of the body rebinds the scraper's api_key.
ScraperAfterBody_rebinds(sc) == [sc EXCEPT !.api_key = ""]

\* Lines 76-112 read self.api_key, self.api_url and self.link and assign no
\* attribute of self.
ScraperAfterBody(sc) == sc

\* The model's cap on the attempt counter, above what the policy allows.
CounterCap == MaxAttempts + 1

NoResult == [kind |-> "none", value |-> EmptyOutcome, exc |-> NoException]
Returned(v) == [kind |-> "value", value |-> v, exc |-> NoException]
Raised(e) == [kind |-> "exception", value |-> EmptyOutcome, exc |-> e]

\* ------------------------------------------------------------------- state
Init ==
    /\ \E d \in Deployments : env = d.env /\ pool = d.pool
    /\ scraper = [s \in Scrapers |-> Unbuilt]
    /\ pc = [s \in Scrapers |-> "idle"]
    /\ attempt_number = [s \in Scrapers |-> 0]
    /\ sent = [s \in Scrapers |-> << >>]
    /\ hist = [s \in Scrapers |-> << >>]
    /\ slept = [s \in Scrapers |-> << >>]
    /\ transformed = [s \in Scrapers |-> << >>]
    /\ result = [s \in Scrapers |-> NoResult]
    /\ cancelled = [s \in Scrapers |-> FALSE]
    /\ logged = [s \in Scrapers |-> << >>]
    /\ done = [s \in Scrapers |-> << >>]

\* JinaScraper(link, session)
Construct(s) ==
    /\ scraper[s].state = "unbuilt"
    /\ scraper' = [scraper EXCEPT ![s] = NewScraper(s, LinkOf(s), pool, env)]
    /\ UNCHANGED <<env, pool, pc, attempt_number, sent, hist, slept, transformed,
                   result, cancelled, logged, done>>

\* The caller invokes scrape(): the first attempt builds and sends its request.
StartScrape(s) ==
    /\ scraper[s].state = "built"
    /\ pc[s] = "idle"
    /\ pc' = [pc EXCEPT ![s] = "inflight"]
    /\ attempt_number' = [attempt_number EXCEPT ![s] = FirstAttempt(s)]
    /\ sent' = [sent EXCEPT ![s] = Append(@, BuildRequest(scraper[s]))]
    /\ UNCHANGED <<env, pool, scraper, hist, slept, transformed, result, cancelled,
                   logged, done>>

\* requests.post returns or fails; the rest of the body runs, and the retry
\* policy decides between returning, sleeping and raising.  Before it sleeps
\* the retry state is prepared for the next attempt: its attempt number is
\* incremented, and the call then blocks in time.sleep.
Receive(s, resp) ==
    /\ pc[s] = "inflight"
    /\ \E out \in {ScrapeBody(scraper[s], resp, attempt_number[s])} :
       LET n == RetryAttempt(s)
       IN
       /\ hist' = [hist EXCEPT ![s] = Append(@, resp)]
       /\ logged' = [logged EXCEPT ![s] = @ \o out.logged]
       /\ scraper' = [scraper EXCEPT ![s] = ScraperAfterBody(@)]
       /\ transformed' = [transformed EXCEPT ![s] =
                            IF out.ran_transform
                            THEN Append(@, [attempt |-> attempt_number[s],
                                            page |-> resp.text])
                            ELSE @]
       /\ IF ~out.raised
          THEN /\ pc' = [pc EXCEPT ![s] = "returned"]
               /\ result' = [result EXCEPT ![s] = Returned(out.value)]
          ELSE IF ~is_429_error(out.exc)
          THEN /\ pc' = [pc EXCEPT ![s] = "raised"]
               /\ result' = [result EXCEPT ![s] = Raised(out.exc)]
          ELSE IF stop_after_attempt(n)
          THEN /\ pc' = [pc EXCEPT ![s] = "raised"]
               /\ result' = [result EXCEPT ![s] = Raised(RaisedAtStop(out.exc))]
          ELSE /\ pc' = [pc EXCEPT ![s] = "sleeping"]
               /\ UNCHANGED result
       /\ attempt_number' =
             IF out.raised /\ is_429_error(out.exc) /\ ~stop_after_attempt(n)
             THEN [attempt_number EXCEPT ![s] = @ + 1]
             ELSE attempt_number
    /\ UNCHANGED <<env, pool, sent, slept, cancelled, done>>

\* time.sleep(wait) returns: the next attempt builds and sends its request.
\* The wait is the one the policy computed for the attempt that failed, the
\* one before the attempt number the retry state now holds.
WaitElapse(s) ==
    /\ pc[s] = "sleeping"
    /\ attempt_number[s] <= CounterCap
    /\ slept' = [slept EXCEPT ![s] =
                    Append(@, wait_exponential(RetryAttempt(s) - 1))]
    /\ sent' = [sent EXCEPT ![s] = Append(@, BuildRequest(scraper[s]))]
    /\ pc' = [pc EXCEPT ![s] = "inflight"]
    /\ UNCHANGED <<env, pool, scraper, attempt_number, hist, transformed, result,
                   cancelled, logged, done>>

\* The caller's deadline or cancellation fires while the call sleeps between
\* retries.  scrape() takes no deadline and time.sleep observes none.
Cancel(s) ==
    /\ pc[s] = "sleeping"
    /\ ~cancelled[s]
    /\ cancelled' = [cancelled EXCEPT ![s] = TRUE]
    /\ UNCHANGED <<env, pool, scraper, pc, attempt_number, sent, hist, slept,
                   transformed, result, logged, done>>

\* The caller invokes scrape() again on a scraper whose previous call has
\* ended: the ended call is kept in done, and the new call's first attempt
\* builds and sends its request.
ScrapeAgain(s) ==
    /\ pc[s] \in {"returned", "raised"}
    /\ Len(done[s]) < MaxCalls - 1
    /\ done' = [done EXCEPT ![s] =
                  Append(@, [hist |-> hist[s], sent |-> sent[s], slept |-> slept[s],
                             result |-> result[s]])]
    /\ pc' = [pc EXCEPT ![s] = "inflight"]
    /\ attempt_number' = [attempt_number EXCEPT ![s] = FirstAttempt(s)]
    /\ sent' = [sent EXCEPT ![s] = << BuildRequest(scraper[s]) >>]
    /\ hist' = [hist EXCEPT ![s] = << >>]
    /\ slept' = [slept EXCEPT ![s] = << >>]
    /\ transformed' = [transformed EXCEPT ![s] = << >>]
    /\ logged' = [logged EXCEPT ![s] = << >>]
    /\ result' = [result EXCEPT ![s] = NoResult]
    /\ UNCHANGED <<env, pool, scraper, cancelled>>

Next ==
    \E s \in Scrapers :
        \/ Construct(s)
        \/ StartScrape(s)
        \/ \E resp \in Responses : Receive(s, resp)
        \/ WaitElapse(s)

Spec == Init /\ [][Next]_vars

NextCancel ==
    \E s \in Scrapers :
        \/ Construct(s)
        \/ StartScrape(s)
        \/ \E resp \in Responses : Receive(s, resp)
        \/ WaitElapse(s)
        \/ Cancel(s)

SpecCancel == Init /\ [][NextCancel]_vars

\* One scraper, called again and again, one call at a time.
NextSeq ==
    \E s \in 1..1 :
        \/ Construct(s)
        \/ StartScrape(s)
        \/ \E resp \in Responses : Receive(s, resp)
        \/ WaitElapse(s)
        \/ ScrapeAgain(s)

SpecSeq == Init /\ [][NextSeq]_vars

\* One call on one scraper, where the request in flight eventually ends in a
\* response or a network failure and the backoff sleep eventually elapses.
NextOne ==
    \E s \in 1..1 :
        \/ Construct(s)
        \/ StartScrape(s)
        \/ \E resp \in Responses : Receive(s, resp)
        \/ WaitElapse(s)

SpecLive ==
    /\ Init
    /\ [][NextOne]_vars
    /\ \A s \in 1..1 :
          /\ WF_vars(\E resp \in Responses : Receive(s, resp))
          /\ WF_vars(WaitElapse(s))

\* ------------------------------------------------------------------ claims
\* Vocabulary of the claims, stated on responses and results as the caller and
\* the service see them.
Last(q) == q[Len(q)]
Is429(resp) == resp.net_ok /\ resp.status_code = 429
IsNon429Error(resp) ==
    resp.net_ok /\ resp.status_code >= 400 /\ resp.status_code <= 599
    /\ resp.status_code # 429
IsRateLimitError(exc) == exc.type = "HTTPError" /\ exc.status_code = 429
AllRateLimited(q) == \A i \in 1..Len(q) : Is429(q[i])
NonDecreasing(q) == \A i \in 1..Len(q) : \A j \in i..Len(q) : q[i] <= q[j]

\* C1: a 4xx/5xx response other than 429 ends the call at once with the empty
\* outcome: it is the call's last response, no request and no backoff wait
\* follows it, and when it answers the first request the call has sent exactly
\* one request and waited not at all.
C1_NonRateLimitErrorReturnsEmpty ==
    \A s \in Scrapers : \A i \in 1..Len(hist[s]) :
        IsNon429Error(hist[s][i]) =>
            /\ i = Len(hist[s])
            /\ Len(sent[s]) = i
            /\ Len(slept[s]) = i - 1
            /\ pc[s] = "returned"
            /\ result[s] = Returned(EmptyOutcome)
            /\ (AllRateLimited(SubSeq(hist[s], 1, i - 1)))

C1_Witness ==
    \E s \in Scrapers :
        /\ hist[s] = << HttpResponse(500, PageNoContent) >>
        /\ Len(sent[s]) = 1
        /\ slept[s] = << >>
        /\ result[s] = Returned(EmptyOutcome)

\* C2: when the service answers 429 to all 5 attempts of a call, the waits
\* between the attempts are non-decreasing and each within [10, 600], and the
\* call then raises the rate-limit error instead of returning a value.
C2_FiveRateLimitsRaise ==
    \A s \in Scrapers :
        /\ AllRateLimited(hist[s]) =>
              /\ NonDecreasing(slept[s])
              /\ \A i \in 1..Len(slept[s]) : 10 <= slept[s][i] /\ slept[s][i] <= 600
        /\ (AllRateLimited(hist[s]) /\ Len(hist[s]) = 5) =>
              /\ pc[s] = "raised"
              /\ Len(slept[s]) = 4
              /\ result[s].kind = "exception"
              /\ IsRateLimitError(result[s].exc)

C2_Witness ==
    \E s \in Scrapers :
        /\ Len(hist[s]) = 5
        /\ AllRateLimited(hist[s])
        /\ pc[s] = "raised"
        /\ Len(slept[s]) = 4

\* The call of s got a 429 on its first attempt and a 200 on its second.
RateLimitedThenOk(s) ==
    /\ Len(hist[s]) = 2
    /\ Is429(hist[s][1])
    /\ hist[s][2].net_ok
    /\ hist[s][2].status_code = 200

\* C3 as stated: after a 429 on the first attempt and a 200 on the second there
\* were exactly two requests and one wait, and the call returned the outcome
\* derived from the 200 response's content, which is not the empty outcome.
C3_RetryThenNonEmptyOutcome ==
    \A s \in Scrapers :
        RateLimitedThenOk(s) =>
            /\ Len(sent[s]) = 2
            /\ Len(slept[s]) = 1
            /\ pc[s] = "returned"
            /\ result[s].kind = "value"
            /\ result[s].value # EmptyOutcome

\* C3, amended: after a 429 on the first attempt and a 200 on the second there
\* were exactly two requests and one wait, the 200 response's body is the only
\* one that was transformed, and the call returned.  When the transformation
\* completes, the outcome is the one derived from that body (its markdown, the
\* collaborator's images for it and the target, the extracted title) and is
\* not the empty outcome; when the transformation raises (the body cannot be
\* parsed, or the extraction finds no content), the exception is logged and the
\* outcome is the empty one.
C3_RetryThenOutcomeOf200 ==
    \A s \in Scrapers :
        RateLimitedThenOk(s) =>
            LET page == hist[s][2].text
                article == simple_json_from_html_string(page)
            IN
            /\ Len(sent[s]) = 2
            /\ Len(slept[s]) = 1
            /\ pc[s] = "returned"
            /\ result[s].kind = "value"
            /\ transformed[s] = << [attempt |-> 2, page |-> page] >>
            /\ (page.wellformed /\ article.has_content) =>
                  /\ logged[s] = << >>
                  /\ result[s].value = << md(article.content),
                                          get_relevant_images(article.content,
                                                              scraper[s].link),
                                          article.title >>
                  /\ result[s].value # EmptyOutcome
            /\ ~(page.wellformed /\ article.has_content) =>
                  /\ Len(logged[s]) = 1
                  /\ result[s].value = EmptyOutcome
            /\ page = PageFull =>
                  /\ result[s].value[1][1] = "Hello **world**"
                  /\ result[s].value[3] = Str("T")

C3_Witness ==
    \E s \in Scrapers :
        /\ hist[s] = << HttpResponse(429, PageNoContent), HttpResponse(200, PageFull) >>
        /\ Len(sent[s]) = 2
        /\ Len(slept[s]) = 1
        /\ result[s].kind = "value"
        /\ result[s].value[1] = << "Hello **world**", "![](a.png)", "![](hero.png)",
                                   "![](dot.png)" >>
        /\ result[s].value # EmptyOutcome

\* What ends an attempt in an error other than a rate limit: a network failure,
\* a 4xx/5xx other than 429, or an accepted response whose page cannot be
\* transformed.
IsOtherFailure(resp) ==
    \/ ~resp.net_ok
    \/ IsNon429Error(resp)
    \/ /\ resp.net_ok
       /\ resp.status_code < 400
       /\ (~resp.text.wellformed \/ resp.text.body = << >>)

\* C4: a call raises only a rate-limit error, and only after 429 answers to all
\* 5 attempts; an attempt that ends in any other error makes the call return
\* the empty outcome.
C4_OnlyExhaustedRateLimitRaises ==
    \A s \in Scrapers :
        /\ pc[s] = "raised" =>
              /\ result[s].kind = "exception"
              /\ IsRateLimitError(result[s].exc)
              /\ Len(hist[s]) = 5
              /\ AllRateLimited(hist[s])
        /\ result[s].kind = "exception" => pc[s] = "raised"
        /\ (hist[s] # << >> /\ IsOtherFailure(Last(hist[s]))) =>
              /\ pc[s] = "returned"
              /\ result[s] = Returned(EmptyOutcome)

C4_Witness ==
    \E s, t \in Scrapers :
        /\ pc[s] = "raised"
        /\ Len(hist[s]) = 5
        /\ hist[t] = << HttpResponse(429, PageNoContent), NetworkFailure >>
        /\ result[t] = Returned(EmptyOutcome)

\* C5: a call never sends more than 5 requests, and the error it raises after
\* the 5th failed attempt is the error object of that 5th attempt.
C5_AttemptCap ==
    \A s \in Scrapers :
        /\ Len(sent[s]) <= 5
        /\ pc[s] = "raised" =>
              /\ Len(sent[s]) = 5
              /\ result[s].exc = HTTPError(429, 5)

C5_Witness ==
    \E s \in Scrapers :
        /\ pc[s] = "raised"
        /\ Len(sent[s]) = 5
        /\ result[s].exc.attempt = 5

\* C6: every value scrape() returns is a 3-tuple of a markdown string, an image
\* sequence and a title string; when the attempt failed it is exactly the
\* empty outcome.
C6_OutcomeStructurallyComplete ==
    \A s \in Scrapers :
        pc[s] = "returned" =>
            /\ result[s].kind = "value"
            /\ Len(result[s].value) = 3
            /\ IsStr(result[s].value[3])
            /\ IsOtherFailure(Last(hist[s])) => result[s].value = EmptyOutcome

\* C7: with the API key setting unset, constructing the scraper succeeds, and a
\* call answered with 200 sends no Authorization header and returns.
C7_AbsentCredentialsProceed ==
    \A s \in Scrapers :
        ("JINA_API_KEY" \notin DOMAIN env /\ scraper[s].state # "unbuilt") =>
            /\ scraper[s].state = "built"
            /\ \A i \in 1..Len(sent[s]) :
                  "Authorization" \notin DOMAIN sent[s][i].headers

\* Whether the page of attempt i of call s was passed to the transformation.
WasTransformed(s, i) ==
    \E k \in 1..Len(transformed[s]) :
        /\ transformed[s][k].attempt = i
        /\ transformed[s][k].page = hist[s][i].text

\* C8 as stated: the page of a response whose status is not 2xx is never
\* passed to the transformation.
C8_Non2xxNeverTransformed ==
    \A s \in Scrapers : \A i \in 1..Len(hist[s]) :
        (hist[s][i].net_ok
         /\ ~(200 <= hist[s][i].status_code /\ hist[s][i].status_code <= 299)) =>
            ~WasTransformed(s, i)

\* C8, amended: a response with a 4xx or 5xx status is an error of the fetch
\* step: its page is never passed to the transformation, a 429 is retried or
\* raised as the rate-limit error, and any other is a terminal failure that
\* returns the empty outcome.  A response with any other status (1xx, 2xx,
\* 3xx) is accepted and its page is passed to the transformation.
C8_ErrorStatusIs4xx5xx ==
    \A s \in Scrapers : \A i \in 1..Len(hist[s]) :
        LET resp == hist[s][i] IN
        resp.net_ok =>
            /\ (400 <= resp.status_code /\ resp.status_code <= 599) =>
                  /\ ~WasTransformed(s, i)
                  /\ Is429(resp) =>
                        \/ Len(sent[s]) > i
                        \/ pc[s] = "sleeping"
                        \/ pc[s] = "raised" /\ IsRateLimitError(result[s].exc)
                  /\ ~Is429(resp) =>
                        /\ i = Len(hist[s])
                        /\ result[s] = Returned(EmptyOutcome)
            /\ ~(400 <= resp.status_code /\ resp.status_code <= 599) =>
                  /\ WasTransformed(s, i)
                  /\ i = Len(hist[s])
                  /\ pc[s] = "returned"

C8_Witness ==
    \E s, t \in Scrapers :
        /\ hist[s] = << HttpResponse(300, PageFull) >>
        /\ WasTransformed(s, 1)
        /\ result[s].value # EmptyOutcome
        /\ hist[t] = << HttpResponse(404, PageNoContent) >>
        /\ transformed[t] = << >>

\* C9: once a call has been cancelled while it waits between retries, it
\* completes no further backoff wait and sends no further request.
C9_CancelledCallStopsWaiting ==
    [][\A s \in Scrapers :
          cancelled[s] => (slept'[s] = slept[s] /\ sent'[s] = sent[s])]_vars

\* The wait the policy prescribes after failed attempt n.
ScheduledWait(n) ==
    LET e == 2^(n - 1)
        floored == IF e < 10 THEN 10 ELSE e
    IN IF floored > 600 THEN 600 ELSE floored

\* C10: under every interleaving of concurrent calls, a call's attempt
\* counter, its waits and its outcome are determined by the responses to its
\* own requests: the counter is the number of its own requests (one more
\* while it waits to make the next), each earlier
\* response of its own was a 429, it has waited once per own 429 it retried,
\* and it raises exactly when its own 5 attempts were all answered 429.
C10_CallsAreIndependent ==
    \A s \in Scrapers :
        /\ attempt_number[s] = Len(sent[s]) + (IF pc[s] = "sleeping" THEN 1 ELSE 0)
        /\ Len(sent[s]) = Len(hist[s]) + (IF pc[s] = "inflight" THEN 1 ELSE 0)
        /\ \A i \in 1..(Len(hist[s]) - 1) : Is429(hist[s][i])
        /\ slept[s] = [i \in 1..(Len(sent[s]) - 1) |-> ScheduledWait(i)]
        /\ pc[s] = "sleeping" <=>
              (/\ hist[s] # << >> /\ AllRateLimited(hist[s])
               /\ Len(hist[s]) < 5 /\ Len(sent[s]) = Len(hist[s]))
        /\ pc[s] = "raised" <=> (AllRateLimited(hist[s]) /\ Len(hist[s]) = 5)
        /\ pc[s] = "returned" <=> (hist[s] # << >> /\ ~Is429(Last(hist[s])))
        /\ pc[s] = "raised" => result[s] = Raised(HTTPError(429, 5))
        /\ pc[s] = "returned" =>
              result[s] = Returned(ScrapeBody(scraper[s], Last(hist[s]),
                                              Len(hist[s])).value)

C10_Witness ==
    \E s, t \in Scrapers :
        /\ s # t
        /\ scraper[s].session = SharedSession
        /\ scraper[t].session = SharedSession
        /\ pc[s] = "raised"
        /\ Len(hist[s]) = 5
        /\ pc[t] = "returned"
        /\ hist[t] = << HttpResponse(429, PageNoContent), HttpResponse(200, PageFull) >>
        /\ result[t].value # EmptyOutcome

\* The current call of scraper s has ended.
Ended(s) == pc[s] \in {"returned", "raised"}

\* C11: a call on a scraper starts from nothing an earlier call on it left:
\* its attempt counter counts its own requests only (one more while it waits
\* to make the next), and when it ends after
\* the same responses as an earlier call (in particular after one identical
\* successful response) it has sent the same requests, waited the same waits
\* and returned the identical outcome.
C11_CallsAreIdempotent ==
    \A s \in Scrapers :
        /\ attempt_number[s] = Len(sent[s]) + (IF pc[s] = "sleeping" THEN 1 ELSE 0)
        /\ \A k \in 1..Len(done[s]) :
              (Ended(s) /\ done[s][k].hist = hist[s]) =>
                  /\ done[s][k].result = result[s]
                  /\ done[s][k].sent = sent[s]
                  /\ done[s][k].slept = slept[s]

C11_Witness ==
    \E s \in Scrapers :
        /\ Len(done[s]) = 1
        /\ done[s][1].hist = << HttpResponse(200, PageFull) >>
        /\ hist[s] = << HttpResponse(200, PageFull) >>
        /\ pc[s] = "returned"
        /\ result[s] = done[s][1].result
        /\ result[s].value # EmptyOutcome

\* C12: attempt k+1 of a call is made only if attempts 1..k each ended in a
\* 429 response; the first attempt that ends in anything else ends the call,
\* with no further request, also after earlier 429s.
C12_RetryOnlyAfter429 ==
    \A s \in Scrapers :
        /\ \A k \in 1..(Len(sent[s]) - 1) : Is429(hist[s][k])
        /\ \A k \in 1..Len(hist[s]) :
              ~Is429(hist[s][k]) =>
                  /\ k = Len(hist[s])
                  /\ Len(sent[s]) = k
                  /\ Len(slept[s]) = k - 1
                  /\ Ended(s)

C12_Witness ==
    \E s \in Scrapers :
        /\ hist[s] = << HttpResponse(429, PageNoContent),
                        HttpResponse(429, PageNoContent), NetworkFailure >>
        /\ Len(sent[s]) = 3
        /\ pc[s] = "returned"

\* C13: the wait before the retry that follows failed attempt n is
\* min(600, max(10, 2^(n-1))), whatever calls came before: the n-th wait of
\* every call, the current one and the earlier ones, is that value.
C13_WaitSchedule ==
    \A s \in Scrapers :
        /\ \A n \in 1..Len(slept[s]) : slept[s][n] = ScheduledWait(n)
        /\ \A k \in 1..Len(done[s]) : \A n \in 1..Len(done[s][k].slept) :
              done[s][k].slept[n] = ScheduledWait(n)

C13_Witness ==
    \E s \in Scrapers :
        /\ Len(done[s]) = 1
        /\ Len(done[s][1].slept) = 2
        /\ Len(slept[s]) = 4

\* C14: the transformation runs at most once in a call, only on the response
\* the fetch step accepted (a response that raise_for_status let pass), and it
\* ends the call whether it succeeds or fails: no wait and no request follows.
C14_TransformOnceAndTerminal ==
    \A s \in Scrapers :
        /\ Len(transformed[s]) <= 1
        /\ \A k \in 1..Len(transformed[s]) :
              LET a == transformed[s][k].attempt IN
              /\ a = Len(hist[s])
              /\ hist[s][a].net_ok
              /\ ~(400 <= hist[s][a].status_code /\ hist[s][a].status_code <= 599)
              /\ transformed[s][k].page = hist[s][a].text
              /\ pc[s] = "returned"
              /\ Len(sent[s]) = a
              /\ Len(slept[s]) = a - 1

C14_Witness ==
    \E s \in Scrapers :
        /\ hist[s] = << HttpResponse(429, PageNoContent),
                        HttpResponse(200, PageNoContent) >>
        /\ Len(transformed[s]) = 1
        /\ logged[s] # << >>
        /\ result[s] = Returned(EmptyOutcome)
        /\ Len(slept[s]) = 1

\* Credentials are present when the API key setting holds a non-empty string.
CredentialsPresent ==
    "JINA_API_KEY" \in DOMAIN env /\ env["JINA_API_KEY"] # ""

\* C15: every request of every attempt is a POST to the endpoint with the JSON
\* content type, the HTML format header and a body holding the target URL; it
\* carries the bearer Authorization header exactly when credentials are
\* present; and every retry repeats the first request unchanged.
C15_RequestShape ==
    \A s \in Scrapers : \A i \in 1..Len(sent[s]) :
        LET req == sent[s][i] IN
        /\ req.method = "POST"
        /\ req.url = get_server_url(env)
        /\ {"Content-Type", "X-Return-Format"} \subseteq DOMAIN req.headers
        /\ DOMAIN req.headers \subseteq {"Content-Type", "X-Return-Format", "Authorization"}
        /\ req.headers["Content-Type"] = "application/json"
        /\ req.headers["X-Return-Format"] = "html"
        /\ req.json = [url |-> LinkOf(s)]
        /\ ("Authorization" \in DOMAIN req.headers) <=> CredentialsPresent
        /\ CredentialsPresent =>
              req.headers["Authorization"] = "Bearer " \o env["JINA_API_KEY"]
        /\ req = sent[s][1]

C15_Witness ==
    \E s \in Scrapers :
        /\ Len(sent[s]) = 3
        /\ CredentialsPresent
        /\ sent[s][3].headers["Authorization"] = "Bearer k1"

\* C16: when the readability extraction of an accepted response finds no
\* content, the transformation goes on with an empty body: no exception is
\* caught, and the outcome is the empty markdown and no images with the
\* extracted title.
C16_NoContentProceeds ==
    \A s \in Scrapers :
        (/\ Ended(s)
         /\ Last(hist[s]).net_ok
         /\ Last(hist[s]).status_code = 200
         /\ Last(hist[s]).text.wellformed
         /\ Last(hist[s]).text.body = << >>) =>
            /\ logged[s] = << >>
            /\ result[s].kind = "value"
            /\ result[s].value[1] = << >>
            /\ result[s].value[2] = << >>
            /\ result[s].value[3] =
                  simple_json_from_html_string(Last(hist[s]).text).title

\* C17: no step of any call changes a constructed scraper's link, api_key,
\* api_url or session, whatever the call's responses and outcome.
C17_ScraperFieldsReadOnly ==
    [][\A s \in Scrapers :
          scraper[s].state = "built" => scraper'[s] = scraper[s]]_vars

C17_Witness ==
    \E s \in Scrapers :
        /\ Len(done[s]) = 1
        /\ done[s][1].result.kind = "exception"
        /\ pc[s] = "returned"
        /\ result[s].value # EmptyOutcome
        /\ scraper[s] = NewScraper(s, LinkOf(s), pool, env)

\* C18: in every call requests and waits alternate, starting and ending with a
\* request: the waits completed are one fewer than the requests sent, every
\* wait follows a 429 answer to one of the first 4 attempts, and a call that
\* has ended has waited once less than it has had responses.
C18_RequestsAndWaitsAlternate ==
    \A s \in Scrapers :
        /\ sent[s] = << >> => slept[s] = << >>
        /\ sent[s] # << >> => Len(slept[s]) = Len(sent[s]) - 1
        /\ \A k \in 1..Len(slept[s]) : k < 5 /\ Is429(hist[s][k])
        /\ Ended(s) => Len(slept[s]) = Len(hist[s]) - 1

C18_Witness ==
    \E s \in Scrapers :
        /\ Len(done[s]) = 1
        /\ Len(done[s][1].slept) = 0
        /\ pc[s] = "raised"
        /\ Len(sent[s]) = 5
        /\ Len(slept[s]) = 4

\* C19: every call terminates: once its request is in flight or it sleeps
\* between attempts, it eventually returns an outcome or raises.
C19_CallTerminates ==
    \A s \in Scrapers : (pc[s] \in {"inflight", "sleeping"}) ~> Ended(s)

C19_Witness ==
    \E s \in Scrapers :
        /\ pc[s] = "returned"
        /\ Len(hist[s]) = 5
        /\ Len(slept[s]) = 4

====
